---- MODULE Spec2Model ----
(***************************************************************************)
(* Model of QuizGenerator.create_quiz_from_text (src/ai_agent.py): the     *)
(* chunked summarize -> allocate -> generate -> aggregate pipeline.        *)
(*                                                                         *)
(* The coroutine is cut at its await points: one action per stretch of     *)
(* code between two awaits.  The completion service (Runner.run) and the   *)
(* persistence collaborator (save_text_to_file) are the environment; their *)
(* outcomes are the inputs of the actions.                                 *)
(*                                                                         *)
(* Text is represented by its length and a chunk by the slice [start,stop) *)
(* it covers.  Strings that the code edits (the filename) are sequences of *)
(* one-character strings.  A question is <<chunk index, position>>, a      *)
(* summary is a one-token text naming its chunk.                           *)
(***************************************************************************)
EXTENDS Integers, Sequences, FiniteSets, TLC

\* ------------------------------------------------------------------ bounds
MaxChunks == 3        \* documents of 0..MaxChunks chunks
MaxTarget == 10       \* largest num_questions_total
NegTargets == 1       \* how many negative values of num_questions_total
MaxDeliver == 5       \* most questions one generation request delivers
MaxTextLen == 5       \* longest text split character by character
MaxSplitSize == 4     \* largest chunk_size tried on such a text
MaxPieces == 3        \* a filename is built of at most this many pieces

\* ------------------------------------------------------- program constants
MAX_CHUNK_SIZE == 15000

\* --------------------------------------------------------------- inputs
\* Text lengths: every multiple of the chunk size up to MaxChunks chunks,
\* and 40,000 characters (3 chunks, the last one shorter).
TextLens ==
    { k * MAX_CHUNK_SIZE : k \in 0..MaxChunks } \cup { 40000 }

Targets == (0 - NegTargets)..MaxTarget

FileNames ==
    { <<"r", ".", "p", "d", "f">>,
      <<"n", ".", "t", "x", "t">> }

VARIABLES
    text_len,                \* len(text)
    filename,                \* the filename argument
    num_questions_total,     \* the target
    pc,                      \* "start", "summarizing", "generating", "done"
    i,                       \* loop index of line 102
    all_questions,           \* line 82
    aggregated_chunk_summaries_for_saving,   \* line 83
    result,                  \* the returned pair
    sum_requests,            \* log: chunk indices sent to the summarizer
    sum_outcomes,            \* log: what _summarize_chunk returned for each
    gen_requests,            \* log: generation requests issued
    gen_outcomes,            \* log: what each generation request delivered
    save_calls,              \* log: calls of save_text_to_file
    saved_files,             \* files written by save_text_to_file
    unexpected_error,        \* TRUE once the handler of line 203 ran
    split_text,              \* _split_text_into_chunks: text, its characters
    split_chunk_size,        \* _split_text_into_chunks: chunk_size
    split_chunks             \* _split_text_into_chunks: the list returned

vars == << text_len, filename, num_questions_total, pc, i, all_questions,
           aggregated_chunk_summaries_for_saving, result, sum_requests,
           sum_outcomes, gen_requests, gen_outcomes, save_calls, saved_files,
           unexpected_error, split_text, split_chunk_size, split_chunks >>

\* The arguments of the call, and the character-level workbench of
\* _split_text_into_chunks, which create_quiz_from_text leaves alone.
split_vars == << split_text, split_chunk_size, split_chunks >>

\* ------------------------------------------------------------ pure helpers
Min(a, b) == IF a <= b THEN a ELSE b
Max(a, b) == IF a >= b THEN a ELSE b

\* Python's range(start, stop, step) for step > 0, as a sequence.
RECURSIVE PyRange(_, _, _)
PyRange(start, stop, step) ==
    IF start >= stop THEN << >>
    ELSE << start >> \o PyRange(start + step, stop, step)

\* text[a:b] of a text of length n, as the slice it covers.
Slice(n, a, b) == [start |-> Min(a, n), stop |-> Min(b, n)]

\* _split_text_into_chunks: one slice text[s : s + chunk_size] per s of
\* range(0, len(text), chunk_size).
SplitTextIntoChunks(n, chunk_size) ==
    LET starts == PyRange(0, n, chunk_size)
    IN  [ k \in 1..Len(starts) |-> Slice(n, starts[k], starts[k] + chunk_size) ]

\* A variant that keeps only the full chunks and drops a shorter tail.
SplitChars_DropsTail(text, chunk_size) ==
    LET starts == PyRange(0, Len(text) - chunk_size + 1, chunk_size)
    IN  [ k \in 1..Len(starts) |->
            SubSeq(text, starts[k] + 1, starts[k] + chunk_size) ]

\* A variant whose range runs one index too far: an empty chunk for the
\* empty text and after a text that fills its last chunk.
SplitChars_TrailingEmpty(text, chunk_size) ==
    LET starts == PyRange(0, Len(text) + 1, chunk_size)
    IN  [ k \in 1..Len(starts) |->
            SubSeq(text, starts[k] + 1,
                   Min(starts[k] + chunk_size, Len(text))) ]

\* _split_text_into_chunks on the characters: text[s : s + chunk_size] for
\* each s of range(0, len(text), chunk_size); a Python slice stops at the
\* end of the text.
SplitChars(text, chunk_size) ==
    LET starts == PyRange(0, Len(text), chunk_size)
    IN  [ k \in 1..Len(starts) |->
            SubSeq(text, starts[k] + 1,
                   Min(starts[k] + chunk_size, Len(text))) ]

\* s[a:] and s[:a] on sequences (1-based a).
Drop(s, n) == SubSeq(s, n + 1, Len(s))
Take(s, n) == SubSeq(s, 1, Min(n, Len(s)))

StartsWith(s, pat) == Len(s) >= Len(pat) /\ SubSeq(s, 1, Len(pat)) = pat

\* str.replace(pat, ""): delete the non-overlapping occurrences of pat,
\* scanning from the left.
RECURSIVE RemoveAll(_, _)
RemoveAll(s, pat) ==
    IF s = << >> THEN << >>
    ELSE IF StartsWith(s, pat) THEN RemoveAll(Drop(s, Len(pat)), pat)
    ELSE << Head(s) >> \o RemoveAll(Tail(s), pat)

DotPdf == << ".", "p", "d", "f" >>
DotTxt == << ".", "t", "x", "t" >>

\* line 73
BaseFilenameOf(name) == RemoveAll(RemoveAll(name, DotPdf), DotTxt)

base_filename == BaseFilenameOf(filename)
text_chunks == SplitTextIntoChunks(text_len, MAX_CHUNK_SIZE)
num_chunks == Len(text_chunks)

\* ------------------------------------------------------------------ values
\* Optional[Quiz] and Optional[str]: None, or a value.
NoQuiz == [is_none |-> TRUE, questions |-> << >>]
Quiz(qs) == [is_none |-> FALSE, questions |-> qs]
NoName == [is_none |-> TRUE, name |-> << >>]
Name(n) == [is_none |-> FALSE, name |-> n]

\* The questions a generation request for chunk j delivers, d of them.
QuestionsOf(j, d) == [ k \in 1..d |-> << j, k >> ]

\* The (non-empty) summary the service writes for chunk j, and "".
SummaryOf(j) == << << "summary", j >> >>
EmptySummary == << >>

\* "\n\n".join(list) of line 188
Separator == << << "\n\n", 0 >> >>
\* A variant that concatenates without the separator.
RECURSIVE Join_NoSeparator(_)
Join_NoSeparator(list) ==
    IF list = << >> THEN << >>
    ELSE list[1] \o Join_NoSeparator(Tail(list))

RECURSIVE Join(_)
Join(list) ==
    IF list = << >> THEN << >>
    ELSE IF Len(list) = 1 THEN list[1]
    ELSE list[1] \o Separator \o Join(Tail(list))

\* lines 189-190: the path of the summary file,
\* os.path.join(self.summary_dir, base_filename + "_summary.txt")
SummaryDir == << "summary_dir", "/" >>
SummarySuffix == << "_summary.txt" >>
SummaryPath(base) == SummaryDir \o base \o SummarySuffix

\* A variant that divides by the number of all chunks instead of the
\* chunks still to process.
QuestionsToAttempt_AllChunks(remaining_questions_needed, remaining_chunks_to_process) ==
    IF remaining_chunks_to_process > 0
    THEN Max(1, (remaining_questions_needed + Len(text_chunks) - 1)
                    \div Len(text_chunks))
    ELSE 0

\* A variant that rounds the share down instead of up.
QuestionsToAttempt_Floor(remaining_questions_needed, remaining_chunks_to_process) ==
    IF remaining_chunks_to_process > 0
    THEN Max(1, remaining_questions_needed \div remaining_chunks_to_process)
    ELSE 0

\* A variant that does not count the chunk in hand.
RemainingChunks_ExcludesCurrent(n, j) == n - j - 1

\* line 123: remaining_chunks_to_process, in iteration j of n chunks
RemainingChunks(n, j) == n - j

\* A variant of the rounding idiom that is one too high when the share is
\* a whole number.
QuestionsToAttempt_RoundsPastWhole(remaining_questions_needed, remaining_chunks_to_process) ==
    IF remaining_chunks_to_process > 0
    THEN Max(1, (remaining_questions_needed + remaining_chunks_to_process)
                    \div remaining_chunks_to_process)
    ELSE 0

\* line 124, with Python's floor division
QuestionsToAttempt(remaining_questions_needed, remaining_chunks_to_process) ==
    IF remaining_chunks_to_process > 0
    THEN Max(1, (remaining_questions_needed + remaining_chunks_to_process - 1)
                    \div remaining_chunks_to_process)
    ELSE 0

\* A variant that never truncates.
FinalQuestions_NoTruncation(qs, total) == qs

\* A variant that slices whatever the target: Python's qs[:total], which for
\* a negative total drops the last -total questions.
FinalQuestions_AlwaysSlice(qs, total) ==
    IF total >= 0 THEN Take(qs, total)
    ELSE SubSeq(qs, 1, Max(0, Len(qs) + total))

\* line 199: the questions of the final quiz
FinalQuestions(qs, total) ==
    IF total > 0 THEN Take(qs, total) ELSE qs

\* How a call ends for its caller: it has not ended yet, it returned a pair,
\* or an exception left it.
Pending == [kind |-> "pending", quiz |-> NoQuiz, id |-> NoName]
Returned(q, n) == [kind |-> "returned", quiz |-> q, id |-> n]
Raised == [kind |-> "raised", quiz |-> NoQuiz, id |-> NoName]

\* A variant without the check for an empty question list.
FinalReturn_NoEmptyCheck(qs, total, base) ==
    Returned(Quiz(FinalQuestions(qs, total)), Name(base))

\* lines 194-201: the pair returned after the loop
FinalReturn(qs, total, base) ==
    IF qs = << >> THEN Returned(NoQuiz, Name(base))
    ELSE Returned(Quiz(FinalQuestions(qs, total)), Name(base))

\* A variant without the top-level guard: the exception reaches the caller.
ExceptReturn_Propagates == Raised

\* lines 203-206: the top-level handler, the pair it returns
ExceptReturn == Returned(NoQuiz, NoName)

\* A variant that takes every summary for a usable one.
SummaryIsEmpty_Never(chunk_summary) == FALSE

\* line 107: not chunk_summary
SummaryIsEmpty(chunk_summary) == chunk_summary = << >>

\* A variant without the early exit on a met target.
TargetReached_Never(remaining_questions_needed, total) == FALSE

\* A variant that stops one question late.
TargetReached_Late(remaining_questions_needed, total) ==
    remaining_questions_needed < 0 /\ total > 0

\* line 115: the target is met
TargetReached(remaining_questions_needed, total) ==
    remaining_questions_needed <= 0 /\ total > 0

\* A variant without the check for a zero target.
TargetIsZero_Never(total) == FALSE

\* line 119
TargetIsZero(total) == total = 0

\* A variant that saves whatever was collected.
ShouldSave_Always(sums) == TRUE

\* line 187: is there a summary to save
ShouldSave(sums) == sums # << >>

\* A variant whose failure branches drop what had been accumulated.
Extended_ResetOnFailure(qs, j, out) ==
    IF out.kind = "quiz" /\ out.n > 0 THEN qs \o QuestionsOf(j, out.n)
    ELSE << >>

\* lines 175-178: what a generation response adds to all_questions.
\* out.kind is "error" (Runner.run raised), "no_output" (final_output falsy)
\* or "quiz" with out.n questions.
Extended(qs, j, out) ==
    IF out.kind = "quiz" /\ out.n > 0 THEN qs \o QuestionsOf(j, out.n) ELSE qs

\* The responses to a request for `attempt` questions: a failure, or a quiz
\* of 0..MaxDeliver questions, or of exactly as many as were asked for.
GenOutcomes(attempt) ==
    { [kind |-> "error", n |-> 0], [kind |-> "no_output", n |-> 0] }
    \cup { [kind |-> "quiz", n |-> d] : d \in (0..MaxDeliver) \cup {attempt} }

\* ------------------------------------------------------------------- Init
Init ==
    /\ text_len \in TextLens
    /\ filename \in FileNames
    /\ num_questions_total \in Targets
    /\ pc = "start"
    /\ i = 0
    /\ all_questions = << >>
    /\ aggregated_chunk_summaries_for_saving = << >>
    /\ result = Pending
    /\ sum_requests = << >>
    /\ sum_outcomes = << >>
    /\ gen_requests = << >>
    /\ gen_outcomes = << >>
    /\ save_calls = << >>
    /\ saved_files = << >>
    /\ unexpected_error = FALSE
    /\ split_text = << >>
    /\ split_chunk_size = MAX_CHUNK_SIZE
    /\ split_chunks = << >>

\* ------------------------------------------------- control continuations
\* Each sets pc, i, result, sum_requests, save_calls, saved_files and
\* unexpected_error;
\* the calling action sets the rest.

\* lines 186-206: after the loop.  save_raises is the outcome of
\* save_text_to_file, should it be called.
AfterLoop(qs, sums, save_raises) ==
    LET file == [path |-> SummaryPath(base_filename), text |-> Join(sums)]
        saving == ShouldSave(sums)
    IN  /\ pc' = "done"
        /\ i' = i
        /\ sum_requests' = sum_requests
        /\ save_calls' = IF saving THEN Append(save_calls, file) ELSE save_calls
        /\ saved_files' = IF saving /\ ~save_raises
                          THEN Append(saved_files, file) ELSE saved_files
        /\ unexpected_error' = (saving /\ save_raises)
        /\ result' = IF saving /\ save_raises
                     THEN ExceptReturn
                     ELSE FinalReturn(qs, num_questions_total, base_filename)

\* A variant that sends every chunk through the loop a second time.
NextIteration_RetryOnce(j, qs, sums, save_raises) ==
    LET sent == Cardinality({ k \in 1..Len(sum_requests) :
                                sum_requests[k] = j - 1 })
        jj == IF j > 0 /\ sent < 2 THEN j - 1 ELSE j
    IN  IF jj < num_chunks
        THEN /\ pc' = "summarizing"
             /\ i' = jj
             /\ sum_requests' = Append(sum_requests, jj)
             /\ UNCHANGED << result, save_calls, saved_files,
                             unexpected_error >>
        ELSE AfterLoop(qs, sums, save_raises)

\* lines 102-105: the loop goes on with chunk j, or is over.
NextIteration(j, qs, sums, save_raises) ==
    IF j < num_chunks
    THEN /\ pc' = "summarizing"
         /\ i' = j
         /\ sum_requests' = Append(sum_requests, j)
         /\ UNCHANGED << result, save_calls, saved_files,
                         unexpected_error >>
    ELSE AfterLoop(qs, sums, save_raises)

\* ---------------------------------------------------------------- actions
\* lines 72-105: entry up to the first await.
Start ==
    /\ pc = "start"
    /\ IF num_chunks = 0
       THEN /\ pc' = "done"
            /\ result' = Returned(NoQuiz, Name(base_filename))
            /\ UNCHANGED << i, sum_requests, save_calls, saved_files,
                            unexpected_error >>
       ELSE \E save_raises \in BOOLEAN :
                NextIteration(0, << >>, << >>, save_raises)
    /\ UNCHANGED << text_len, filename, num_questions_total, all_questions,
                    aggregated_chunk_summaries_for_saving, sum_outcomes,
                    gen_requests, gen_outcomes, split_vars >>

\* lines 52-58 and 105-174: the summarizer's Runner.run returned chunk_summary
\* (or raised, which _summarize_chunk turns into ""), up to the next await.
SummaryArrives(chunk_summary, save_raises) ==
    /\ pc = "summarizing"
    /\ UNCHANGED << text_len, filename, num_questions_total, all_questions,
                    gen_outcomes, split_vars >>
    /\ sum_outcomes' = Append(sum_outcomes, chunk_summary)
    /\ IF SummaryIsEmpty(chunk_summary)
       THEN \* lines 107-109
            /\ UNCHANGED << aggregated_chunk_summaries_for_saving, gen_requests >>
            /\ NextIteration(i + 1, all_questions,
                             aggregated_chunk_summaries_for_saving, save_raises)
       ELSE LET sums == Append(aggregated_chunk_summaries_for_saving,
                               chunk_summary)
                remaining_questions_needed ==
                    num_questions_total - Len(all_questions)
                remaining_chunks_to_process == RemainingChunks(num_chunks, i)
                questions_to_attempt_for_this_chunk ==
                    QuestionsToAttempt(remaining_questions_needed,
                                       remaining_chunks_to_process)
            IN  /\ aggregated_chunk_summaries_for_saving' = sums
                /\ IF \/ TargetReached(remaining_questions_needed,
                                       num_questions_total)
                      \/ TargetIsZero(num_questions_total)
                   THEN \* lines 115-121: break
                        /\ UNCHANGED gen_requests
                        /\ AfterLoop(all_questions, sums, save_raises)
                   ELSE IF questions_to_attempt_for_this_chunk <= 0
                   THEN \* lines 126-127: continue
                        /\ UNCHANGED gen_requests
                        /\ NextIteration(i + 1, all_questions, sums,
                                         save_raises)
                   ELSE \* line 174: the generation request
                        /\ gen_requests' = Append(gen_requests,
                              [chunk |-> i,
                               attempt |-> questions_to_attempt_for_this_chunk,
                               before |-> Len(all_questions),
                               chunks_left |-> remaining_chunks_to_process,
                               summary |-> chunk_summary])
                        /\ pc' = "generating"
                        /\ UNCHANGED << i, result, sum_requests, save_calls,
                                        saved_files, unexpected_error >>

SummarizeReturns ==
    \E out \in { EmptySummary, SummaryOf(i) }, save_raises \in BOOLEAN :
        SummaryArrives(out, save_raises)

SummarizeRaises ==
    \E save_raises \in BOOLEAN : SummaryArrives(EmptySummary, save_raises)

\* lines 173-184 and on: the generator's Runner.run returned or raised.
GenerateCompletes ==
    /\ pc = "generating"
    /\ \E out \in GenOutcomes(gen_requests[Len(gen_requests)].attempt),
          save_raises \in BOOLEAN :
          LET qs == Extended(all_questions, i, out)
          IN  /\ all_questions' = qs
              /\ gen_outcomes' = Append(gen_outcomes, out)
              /\ NextIteration(i + 1, qs,
                               aggregated_chunk_summaries_for_saving,
                               save_raises)
    /\ UNCHANGED << text_len, filename, num_questions_total, sum_outcomes,
                    aggregated_chunk_summaries_for_saving, gen_requests,
                    split_vars >>

Next ==
    \/ Start
    \/ SummarizeReturns
    \/ SummarizeRaises
    \/ GenerateCompletes

Spec == Init /\ [][Next]_vars

\* The service answers every request: no step of the call waits for ever.
\* Whether a call ends does not depend on the filename: one is enough.
FairInit == Init /\ filename = << "r", ".", "p", "d", "f" >>
FairSpec == FairInit /\ [][Next]_vars /\ WF_vars(Next)

\* ----------------------------------------- _split_text_into_chunks alone
\* Texts over two characters, of length 0..MaxTextLen.
RECURSIVE TextsOfLen(_)
TextsOfLen(n) ==
    IF n = 0 THEN { << >> }
    ELSE { << c >> \o t : c \in { "a", "b" }, t \in TextsOfLen(n - 1) }
Texts == UNION { TextsOfLen(n) : n \in 0..MaxTextLen }

SplitInit ==
    /\ split_text \in Texts
    /\ split_chunk_size \in 1..MaxSplitSize
    /\ split_chunks = << >>
    /\ pc = "split"
    /\ text_len = 0
    /\ filename = << >>
    /\ num_questions_total = 0
    /\ i = 0
    /\ all_questions = << >>
    /\ aggregated_chunk_summaries_for_saving = << >>
    /\ result = Pending
    /\ sum_requests = << >>
    /\ sum_outcomes = << >>
    /\ gen_requests = << >>
    /\ gen_outcomes = << >>
    /\ save_calls = << >>
    /\ saved_files = << >>
    /\ unexpected_error = FALSE

\* lines 28-34: the call of _split_text_into_chunks(text, chunk_size)
SplitText ==
    /\ pc = "split"
    /\ pc' = "split_done"
    /\ split_chunks' = SplitChars(split_text, split_chunk_size)
    /\ UNCHANGED << text_len, filename, num_questions_total, i, all_questions,
                    aggregated_chunk_summaries_for_saving, result,
                    sum_requests, sum_outcomes, gen_requests, gen_outcomes,
                    save_calls, saved_files, unexpected_error, split_text,
                    split_chunk_size >>

SplitSpec == SplitInit /\ [][SplitText]_vars

\* ------------------------------------------------- the identifier alone
\* Filenames built of 1..MaxPieces pieces: a letter, the two extensions,
\* and fragments of them.
Pieces ==
    { << "a" >>, DotPdf, DotTxt, << ".", "p" >>, << "d", "f" >> }
RECURSIVE NamesOf(_)
NamesOf(n) ==
    IF n = 0 THEN { << >> }
    ELSE { p \o t : p \in Pieces, t \in NamesOf(n - 1) }
NameInputs == UNION { NamesOf(n) : n \in 1..MaxPieces }

\* Calls with any of these filenames, on an empty text or a text of one
\* chunk, for one question.
NameInit ==
    /\ text_len \in { 0, MAX_CHUNK_SIZE }
    /\ filename \in NameInputs
    /\ num_questions_total = 1
    /\ pc = "start"
    /\ i = 0
    /\ all_questions = << >>
    /\ aggregated_chunk_summaries_for_saving = << >>
    /\ result = Pending
    /\ sum_requests = << >>
    /\ sum_outcomes = << >>
    /\ gen_requests = << >>
    /\ gen_outcomes = << >>
    /\ save_calls = << >>
    /\ saved_files = << >>
    /\ unexpected_error = FALSE
    /\ split_text = << >>
    /\ split_chunk_size = MAX_CHUNK_SIZE
    /\ split_chunks = << >>

NameSpec == NameInit /\ [][Next]_vars

\* =================================================================== claims
Done == pc = "done"
QuizReturned == Done /\ result.kind = "returned" /\ ~result.quiz.is_none

\* The questions the generation responses delivered, in the order of the
\* requests, read off the logs (not off all_questions).
RECURSIVE DeliveredUpTo(_)
DeliveredUpTo(k) ==
    IF k = 0 THEN << >>
    ELSE DeliveredUpTo(k - 1)
         \o QuestionsOf(gen_requests[k].chunk,
                        IF gen_outcomes[k].kind = "quiz"
                        THEN gen_outcomes[k].n ELSE 0)
Accumulated == DeliveredUpTo(Len(gen_outcomes))

\* Requests are issued in increasing chunk order.
InChunkOrder(reqs) ==
    \A a, b \in 1..Len(reqs) : a < b => reqs[a].chunk < reqs[b].chunk

\* ceil(a / b) for b > 0, by its defining property.
CeilDiv(a, b) ==
    CHOOSE q \in (0 - (a * a + 1))..(a * a + 1) :
        q * b >= a /\ (q - 1) * b < a

\* C1: with a target >= 1, a returned quiz is exactly the first
\* min(target, A) questions of the accumulated sequence, A its length; the
\* accumulated sequence lists the delivered questions chunk after chunk in
\* processing order, each chunk's in the order delivered.
C1_QuizIsPrefixOfAccumulated ==
    (QuizReturned /\ num_questions_total >= 1) =>
        /\ InChunkOrder(gen_requests)
        /\ all_questions = Accumulated
        /\ result.quiz.questions =
              SubSeq(Accumulated, 1,
                     Min(num_questions_total, Len(Accumulated)))

\* A quiz was returned that is shorter than what two chunks delivered.
C1_Witness ==
    /\ QuizReturned
    /\ num_questions_total >= 1
    /\ Len(all_questions) > num_questions_total
    /\ Len(gen_outcomes) >= 2
    /\ gen_outcomes[1].n > 0
    /\ gen_outcomes[2].n > 0

\* C2: every generation request for chunk i of N asks for
\* max(1, ceil((target - accumulated so far) / (N - i))) questions; with a
\* target of 10 and 3 chunks whose first two contributed 3 questions each,
\* the third is asked for 4.
C2_AttemptIsCeilOfShare ==
    /\ \A k \in 1..Len(gen_requests) :
          LET r == gen_requests[k]
          IN  /\ num_chunks - r.chunk >= 1
              /\ r.attempt =
                    Max(1, CeilDiv(num_questions_total - r.before,
                                   num_chunks - r.chunk))
    /\ ( /\ num_questions_total = 10
         /\ num_chunks = 3
         /\ Len(gen_requests) = 3
         /\ gen_requests[1].before = 0
         /\ gen_requests[2].before = 3
         /\ gen_requests[3].before = 6 )
       => gen_requests[3].attempt = 4

\* The example of C2: 3 chunks, target 10, contributions 3 and 3, and the
\* third request issued.
C2_Witness ==
    /\ num_questions_total = 10
    /\ num_chunks = 3
    /\ Len(gen_requests) = 3
    /\ gen_requests[2].before = 3
    /\ gen_requests[3].before = 6
    /\ gen_requests[3].attempt = 4

\* C3: with a target > 0, once the accumulated questions have reached the
\* target, no step issues a generation request any more.
C3_NoRequestAfterTargetMet ==
    [][ (num_questions_total > 0
            /\ Len(all_questions) >= num_questions_total)
        => gen_requests' = gen_requests ]_vars

\* The example of C3: target 5, the first of 3 chunks delivered 5, the loop
\* went on to a later chunk and the run ended with that one request.
C3_Witness ==
    /\ Done
    /\ num_questions_total = 5
    /\ num_chunks = 3
    /\ Len(gen_requests) = 1
    /\ gen_requests[1].chunk = 0
    /\ gen_outcomes[1] = [kind |-> "quiz", n |-> 5]
    /\ Len(sum_requests) >= 2

\* Every chunk was sent to the summarizer and every summary came back empty.
AllSummariesFailed ==
    /\ Len(sum_outcomes) = num_chunks
    /\ \A k \in 1..Len(sum_outcomes) : sum_outcomes[k] = EmptySummary

\* C4: if the summarization of every chunk fails, the call returns
\* (None, base identifier), no generation request is issued and no summary
\* file is written (save_text_to_file is not even called).
C4_AllSummariesFail ==
    (Done /\ AllSummariesFailed) =>
        /\ result = Returned(NoQuiz, Name(base_filename))
        /\ gen_requests = << >>
        /\ save_calls = << >>
        /\ saved_files = << >>

\* A document of several chunks, all of them summarized in vain.
C4_Witness ==
    /\ Done
    /\ num_chunks >= 2
    /\ AllSummariesFailed
    /\ num_questions_total >= 1

\* C5: with a target <= 0 and at least one accumulated question, the quiz
\* returned holds all accumulated questions, none cut off; and a quiz is
\* returned unless the top-level handler ran.
C5_NoTruncationForNonPositiveTarget ==
    (Done /\ num_questions_total <= 0 /\ all_questions # << >>) =>
        /\ QuizReturned => result.quiz.questions = Accumulated
        /\ all_questions = Accumulated
        /\ ~unexpected_error => QuizReturned

\* A negative target, questions from two chunks, and a quiz returned.
C5_Witness ==
    /\ QuizReturned
    /\ num_questions_total <= 0
    /\ Len(all_questions) >= 2
    /\ Len(gen_outcomes) >= 2
    /\ gen_outcomes[2].n > 0

\* Some chunk's summary came back non-empty.
SomeSummary == \E k \in 1..Len(sum_outcomes) : sum_outcomes[k] # EmptySummary

\* With a zero target: no generation request in any state, and a non-empty
\* summary (the early exit of line 119) is the answer to the last
\* summarization request of the run, which ends there.
ZeroTargetStops ==
    /\ gen_requests = << >>
    /\ all_questions = << >>
    /\ \A k \in 1..Len(sum_outcomes) :
          sum_outcomes[k] # EmptySummary
              => (Done /\ k = Len(sum_requests))

\* C6 as stated: with a zero target there is no generation request, nothing
\* is summarized after the early exit, and the run ends with
\* (None, base identifier).
C6_AsClaimed ==
    num_questions_total = 0 =>
        /\ ZeroTargetStops
        /\ Done => result = Returned(NoQuiz, Name(base_filename))

\* C6, amended: with a zero target there is no generation request, nothing
\* is summarized after the early exit, and the run ends with
\* (None, base identifier) unless an unexpected error reached the top-level
\* handler (save_text_to_file raised), in which case it ends with
\* (None, None).
C6_ZeroTarget ==
    num_questions_total = 0 =>
        /\ ZeroTargetStops
        /\ Done => result = IF unexpected_error
                            THEN Returned(NoQuiz, NoName)
                            ELSE Returned(NoQuiz, Name(base_filename))
        /\ unexpected_error => (save_calls # << >> /\ saved_files = << >>)

\* Zero target, 3 chunks: the first summary failed, the second came back,
\* the third chunk was never sent, and the run ended with (None, base).
C6_Witness ==
    /\ Done
    /\ num_questions_total = 0
    /\ num_chunks = 3
    /\ Len(sum_requests) = 2
    /\ sum_outcomes[1] = EmptySummary
    /\ sum_outcomes[2] # EmptySummary
    /\ result = Returned(NoQuiz, Name(base_filename))

RECURSIVE SumOfAttempts(_)
SumOfAttempts(k) ==
    IF k = 0 THEN 0 ELSE SumOfAttempts(k - 1) + gen_requests[k].attempt

\* The run is over; every summary asked for came back non-empty and every
\* generation request delivered exactly the number of questions asked for.
AllDeliveredInFull ==
    /\ Done
    /\ num_chunks >= 1
    /\ \A k \in 1..Len(sum_outcomes) : sum_outcomes[k] # EmptySummary
    /\ Len(gen_outcomes) = Len(gen_requests)
    /\ \A k \in 1..Len(gen_requests) :
          gen_outcomes[k] = [kind |-> "quiz", n |-> gen_requests[k].attempt]

C8_AlwaysReturnsAPair ==
    /\ result.kind # "raised"
    /\ Done <=> result.kind = "returned"
    /\ Done =>
          /\ \/ result.quiz = NoQuiz
             \/ (~result.quiz.is_none /\ result.quiz.questions # << >>)
          /\ \/ result.id = NoName
             \/ ~result.id.is_none
    /\ unexpected_error =>
          (Done /\ result = Returned(NoQuiz, NoName))

\* Saving raised after questions had been accumulated.
C8_Witness ==
    /\ Done
    /\ unexpected_error
    /\ Len(all_questions) >= 2
    /\ result = Returned(NoQuiz, NoName)

\* C9: a run that ends without an unexpected error returns a quiz exactly
\* if some question was accumulated, and the identifier in both cases; a
\* document of zero chunks ends so without any request to the service or
\* to save_text_to_file.
C9_QuizIffQuestions ==
    /\ (Done /\ ~unexpected_error) =>
          /\ result.kind = "returned"
          /\ ~result.quiz.is_none <=> all_questions # << >>
          /\ result.id = Name(base_filename)
    /\ num_chunks = 0 =>
          /\ sum_requests = << >>
          /\ gen_requests = << >>
          /\ save_calls = << >>
          /\ Done => result = Returned(NoQuiz, Name(base_filename))

\* A run in which a generation was attempted, nothing was accumulated, and
\* (None, base identifier) was returned.
C9_Witness ==
    /\ Done
    /\ ~unexpected_error
    /\ gen_outcomes # << >>
    /\ all_questions = << >>
    /\ result = Returned(NoQuiz, Name(base_filename))

\* C10 as stated: at the end the summary file has been written exactly once
\* if some chunk gave a non-empty summary, and not at all otherwise.
C10_AsClaimed ==
    Done =>
        /\ Len(saved_files) <= 1
        /\ Len(saved_files) = 1 <=> SomeSummary

\* C10, amended: save_text_to_file is called only at the end of the loop,
\* exactly once if some chunk gave a non-empty summary and not at all
\* otherwise, with the path summary_dir/<identifier>_summary.txt, whether or
\* not any question was generated; the file is written if that call does
\* not raise.
C10_SavedOnceIffSomeSummary ==
    /\ ~Done => (save_calls = << >> /\ saved_files = << >>)
    /\ Len(save_calls) <= 1
    /\ Done => (Len(save_calls) = 1 <=> SomeSummary)
    /\ \A k \in 1..Len(save_calls) :
          save_calls[k].path =
              << "summary_dir", "/" >> \o base_filename
                  \o << "_summary.txt" >>
    /\ Done => saved_files = IF unexpected_error THEN << >> ELSE save_calls

\* A generation was attempted, no question came of it, the result is
\* (None, base identifier), and the summary file was written.
C10_Witness ==
    /\ Done
    /\ gen_outcomes # << >>
    /\ result = Returned(NoQuiz, Name(base_filename))
    /\ Len(saved_files) = 1

\* The text expected in the summary file, read off the log of summaries:
\* the non-empty ones in the order received, a blank line between two.
RECURSIVE SummariesJoinedUpTo(_)
SummariesJoinedUpTo(k) ==
    IF k = 0 THEN << >>
    ELSE LET before == SummariesJoinedUpTo(k - 1)
             this == sum_outcomes[k]
         IN  IF this = << >> THEN before
             ELSE IF before = << >> THEN this
             ELSE before \o << << "\n\n", 0 >> >> \o this

\* Chunk c got a generation request.
Requested(c) == \E k \in 1..Len(gen_requests) : gen_requests[k].chunk = c

\* C11: the text handed to save_text_to_file (and so the file written) is
\* the non-empty summaries in chunk order, a blank line between two; a
\* chunk whose summary came back empty adds nothing to it, gets no
\* generation request and contributes no question.
C11_SummaryFileIsJoinOfNonEmpty ==
    /\ \A k \in 1..Len(save_calls) :
          save_calls[k].text = SummariesJoinedUpTo(Len(sum_outcomes))
    /\ \A k \in 1..Len(saved_files) :
          saved_files[k].text = SummariesJoinedUpTo(Len(sum_outcomes))
    /\ \A a, b \in 1..Len(sum_requests) :
          a < b => sum_requests[a] < sum_requests[b]
    /\ \A k \in 1..Len(sum_outcomes) :
          sum_outcomes[k] = EmptySummary =>
              /\ ~Requested(sum_requests[k])
              /\ \A q \in 1..Len(all_questions) :
                    all_questions[q][1] # sum_requests[k]

\* Three chunks, the middle one not summarized, the file written with the
\* first and the third summary.
C11_Witness ==
    /\ Done
    /\ Len(sum_outcomes) = 3
    /\ sum_outcomes[1] # EmptySummary
    /\ sum_outcomes[2] = EmptySummary
    /\ sum_outcomes[3] # EmptySummary
    /\ Len(saved_files) = 1
    /\ saved_files[1].text =
          << << "summary", 0 >>, << "\n\n", 0 >>, << "summary", 2 >> >>
    /\ Len(all_questions) >= 2

\* The concatenation of a list of texts.
RECURSIVE Concat(_)
Concat(list) ==
    IF list = << >> THEN << >> ELSE Head(list) \o Concat(Tail(list))

SplitDone == pc = "split_done"

\* C12: for every text and chunk size > 0, the chunks returned, put together
\* in order, are the text: they are consecutive pieces of it, the first
\* starting at its first character and the last ending at its last one
\* (the slices by which the pipeline model represents them).
C12_ChunksConcatenateToText ==
    SplitDone =>
        /\ Concat(split_chunks) = split_text
        /\ LET slices == SplitTextIntoChunks(Len(split_text), split_chunk_size)
               n == Len(slices)
           IN  /\ n = Len(split_chunks)
               /\ \A k \in 1..n :
                     split_chunks[k] =
                         SubSeq(split_text, slices[k].start + 1, slices[k].stop)
               /\ n > 0 => (slices[1].start = 0
                              /\ slices[n].stop = Len(split_text))
               /\ \A k \in 1..(n - 1) : slices[k].stop = slices[k + 1].start

\* A text of both letters split into three chunks, the last one shorter.
C12_Witness ==
    /\ SplitDone
    /\ split_text = << "a", "b", "b", "a", "b" >>
    /\ split_chunk_size = 2
    /\ split_chunks = << << "a", "b" >>, << "b", "a" >>, << "b" >> >>

\* C13: for every text and chunk size S > 0 there are exactly
\* ceil(len(text) / S) chunks, none empty, each of at most S characters and
\* all but the last of exactly S; the empty text gives no chunk at all.
C13_ChunkCountAndSizes ==
    SplitDone =>
        LET n == Len(split_chunks)
        IN  /\ n = CeilDiv(Len(split_text), split_chunk_size)
            /\ \A k \in 1..n :
                  /\ Len(split_chunks[k]) >= 1
                  /\ Len(split_chunks[k]) <= split_chunk_size
            /\ \A k \in 1..(n - 1) : Len(split_chunks[k]) = split_chunk_size
            /\ split_text = << >> => split_chunks = << >>

\* A text whose length is a multiple of the chunk size: two full chunks.
C13_Witness ==
    /\ SplitDone
    /\ Len(split_text) = 4
    /\ split_chunk_size = 2
    /\ Len(split_chunks) = 2
    /\ Len(split_chunks[2]) = 2

EndsWith(name, ext) ==
    Len(name) >= Len(ext)
        /\ SubSeq(name, Len(name) - Len(ext) + 1, Len(name)) = ext

\* The filename without its extension, if that is .pdf or .txt.
WithoutKnownExtension(name) ==
    IF EndsWith(name, DotPdf) \/ EndsWith(name, DotTxt)
    THEN SubSeq(name, 1, Len(name) - 4)
    ELSE name

\* C14: the identifier returned is the filename with its extension .pdf or
\* .txt stripped and every other character left as it is, for every
\* filename.
C14_IdentifierIsNameWithoutExtension ==
    (Done /\ ~result.id.is_none) =>
        result.id.name = WithoutKnownExtension(filename)

\* A generation response that contributes nothing: the request raised, or
\* there was no output, or a quiz without questions.
GenFailed(out) == out.kind # "quiz" \/ out.n = 0

\* Every generation request was computed from the number of questions the
\* requests before it delivered.
BeforeIsRunningTotal ==
    \A k \in 1..Len(gen_requests) :
        gen_requests[k].before = Len(DeliveredUpTo(k - 1))

\* C15: a generation request that fails leaves the accumulated questions
\* and summaries as they were and is not fatal: the loop goes on with the
\* next chunk (or, after the last one, ends in the ordinary way), and each
\* later allocation starts from the unchanged number of questions.
C15_FailedGenerationChangesNothing ==
    [][ /\ BeforeIsRunningTotal'
        /\ ( /\ pc = "generating"
             /\ Len(gen_outcomes') = Len(gen_outcomes) + 1
             /\ GenFailed(gen_outcomes'[Len(gen_outcomes')]) )
           => /\ all_questions' = all_questions
              /\ aggregated_chunk_summaries_for_saving' =
                    aggregated_chunk_summaries_for_saving
              /\ result'.kind # "raised"
              /\ IF i + 1 < num_chunks
                 THEN /\ pc' = "summarizing"
                      /\ i' = i + 1
                      /\ sum_requests' = Append(sum_requests, i + 1)
                      /\ result' = Pending
                 ELSE /\ pc' = "done"
                      /\ Len(save_calls') = 1
                      /\ unexpected_error' <=> saved_files' = << >>
                      /\ ~unexpected_error' =>
                            (result'.quiz.is_none <=> all_questions = << >>)
      ]_vars

\* After a delivery of 2 questions a request failed, and the request after
\* it was computed from those 2 questions.
C15_Witness ==
    /\ Len(gen_requests) = 3
    /\ gen_outcomes[1] = [kind |-> "quiz", n |-> 2]
    /\ gen_outcomes[2] = [kind |-> "error", n |-> 0]
    /\ gen_requests[2].before = 2
    /\ gen_requests[3].before = 2
    /\ all_questions = QuestionsOf(0, 2)

\* The requests sent and not yet answered.
Outstanding ==
    (Len(sum_requests) - Len(sum_outcomes))
        + (Len(gen_requests) - Len(gen_outcomes))

\* The position of chunk c in the log of summarization requests (0: none).
SumIndex(c) ==
    IF \E j \in 1..Len(sum_requests) : sum_requests[j] = c
    THEN CHOOSE j \in 1..Len(sum_requests) : sum_requests[j] = c
    ELSE 0

\* C16: the chunks are processed one at a time and in index order: at most
\* one request is outstanding, and it is the latest one issued; a chunk gets
\* at most one summarization and at most one generation request; the
\* generation request for chunk c comes after c's summary came back
\* non-empty (it carries that summary) and when every request for an
\* earlier chunk has been answered.
C16_OneChunkAtATime ==
    /\ Outstanding \in { 0, 1 }
    /\ Len(sum_outcomes) <= Len(sum_requests)
    /\ Len(gen_outcomes) <= Len(gen_requests)
    /\ pc = "summarizing" <=> Len(sum_requests) = Len(sum_outcomes) + 1
    /\ pc = "generating" <=> Len(gen_requests) = Len(gen_outcomes) + 1
    /\ pc = "summarizing" =>
          /\ sum_requests[Len(sum_requests)] = i
          /\ \A k \in 1..Len(gen_requests) : gen_requests[k].chunk < i
    /\ pc = "generating" =>
          /\ gen_requests[Len(gen_requests)].chunk = i
          /\ sum_requests[Len(sum_requests)] = i
    /\ \A a, b \in 1..Len(sum_requests) :
          a < b => sum_requests[a] < sum_requests[b]
    /\ \A a, b \in 1..Len(gen_requests) :
          a < b => gen_requests[a].chunk < gen_requests[b].chunk
    /\ \A k \in 1..Len(sum_requests) : sum_requests[k] \in 0..(num_chunks - 1)
    /\ \A k \in 1..Len(gen_requests) :
          LET j == SumIndex(gen_requests[k].chunk)
          IN  /\ j >= 1
              /\ j <= Len(sum_outcomes)
              /\ sum_outcomes[j] # EmptySummary
              /\ gen_requests[k].summary = sum_outcomes[j]
              /\ k - 1 <= Len(gen_outcomes)

\* The generation request for the third chunk is outstanding; the second
\* chunk's summary had come back empty.
C16_Witness ==
    /\ pc = "generating"
    /\ i = 2
    /\ Len(sum_outcomes) = 3
    /\ sum_outcomes[2] = EmptySummary
    /\ Len(gen_requests) = 2
    /\ Len(gen_outcomes) = 1
    /\ Outstanding = 1

\* C17: wherever the allocation is computed, that is in every iteration
\* whose summary may come back, remaining_chunks_to_process = N - i is at
\* least 1: every request was computed with such a divisor, and no
\* non-empty summary was passed over with an allocation of 0 (line 127).
C17_RemainingChunksAtLeastOne ==
    /\ pc \in { "summarizing", "generating" } =>
          /\ i \in 0..(num_chunks - 1)
          /\ RemainingChunks(num_chunks, i) >= 1
    /\ \A k \in 1..Len(gen_requests) :
          /\ gen_requests[k].chunks_left >= 1
          /\ gen_requests[k].chunks_left = num_chunks - gen_requests[k].chunk
    /\ \A j \in 1..Len(sum_outcomes) :
          sum_outcomes[j] # EmptySummary =>
              \/ Requested(sum_requests[j])
              \/ (Done /\ j = Len(sum_requests))

\* The allocation for the last of three chunks ran, with a divisor of 1.
C17_Witness ==
    /\ pc = "generating"
    /\ num_chunks = 3
    /\ i = 2
    /\ gen_requests[Len(gen_requests)].chunks_left = 1

\* No generation response so far held more questions than were asked for.
NoOverDelivery ==
    \A k \in 1..Len(gen_outcomes) :
        gen_outcomes[k].n <= gen_requests[k].attempt

\* C18: with a target > 0 every generation request asks for at least 1 and
\* at most target - accumulated questions; so as long as no response holds
\* more than was asked for, the accumulated questions never outnumber the
\* target and a returned quiz is all of them.
C18_AttemptWithinRemaining ==
    num_questions_total > 0 =>
        /\ \A k \in 1..Len(gen_requests) :
              /\ gen_requests[k].attempt >= 1
              /\ gen_requests[k].attempt
                    <= num_questions_total - gen_requests[k].before
        /\ NoOverDelivery =>
              /\ Len(all_questions) <= num_questions_total
              /\ QuizReturned => result.quiz.questions = all_questions

\* A first response short of its request, later ones making up for it: the
\* quiz returned is the whole of the accumulated questions, the target met.
C18_Witness ==
    /\ QuizReturned
    /\ num_questions_total >= 4
    /\ NoOverDelivery
    /\ Len(gen_requests) = 3
    /\ gen_outcomes[1].n < gen_requests[1].attempt
    /\ Len(all_questions) = num_questions_total
    /\ result.quiz.questions = all_questions

\* The questions delivered for the chunks before chunk c.
QuestionsBefore(c) ==
    Cardinality({ q \in 1..Len(Accumulated) : Accumulated[q][1] < c })

\* The j-th summary asked for came back non-empty and its chunk got no
\* generation request.
Unused(j) ==
    sum_outcomes[j] # EmptySummary /\ ~Requested(sum_requests[j])

\* C19: with a target > 0, a non-empty summary that arrives when the target
\* is already met is not used for generation, and no other summary is left
\* unused; it is the last element of what is handed to save_text_to_file,
\* and after it there is no request of any kind: the run is over.  Until
\* such a summary arrives the loop sends chunk after chunk to the
\* summarizer, to the last one if need be.  So at most one unused summary
\* is in the file.
C19_OneUnusedSummaryAtMost ==
    num_questions_total > 0 =>
        /\ \A j \in 1..Len(sum_outcomes) :
              /\ Unused(j) <=>
                    ( sum_outcomes[j] # EmptySummary
                      /\ QuestionsBefore(sum_requests[j])
                            >= num_questions_total )
              /\ Unused(j) =>
                    /\ Done
                    /\ j = Len(sum_requests)
                    /\ Outstanding = 0
                    /\ Len(save_calls) = 1
                    /\ save_calls[1].text[Len(save_calls[1].text)]
                          = << "summary", sum_requests[j] >>
        /\ Cardinality({ j \in 1..Len(sum_outcomes) : Unused(j) }) <= 1
        /\ ( /\ Done
             /\ num_chunks > 0
             /\ \A j \in 1..Len(sum_outcomes) : ~Unused(j) )
           => sum_requests = [ k \in 1..num_chunks |-> k - 1 ]

\* Target met by the first of three chunks; the second summary failed, the
\* third came back and is in the file without having been used.
C19_Witness ==
    /\ Done
    /\ num_questions_total > 0
    /\ num_chunks = 3
    /\ Len(gen_requests) = 1
    /\ Len(all_questions) >= num_questions_total
    /\ sum_outcomes[2] = EmptySummary
    /\ Unused(3)
    /\ Len(saved_files) = 1
    /\ saved_files[1].text =
          << << "summary", 0 >>, << "\n\n", 0 >>, << "summary", 2 >> >>

\* C20: when every request is answered, every call ends with a result; a
\* document of N chunks costs at most N summarization and at most N
\* generation requests; and a call that has begun and not ended is waiting
\* for the answer to a request.
C20_TerminatesWithinNRequests ==
    /\ [](/\ Len(sum_requests) <= num_chunks
          /\ Len(gen_requests) <= num_chunks
          /\ (pc # "start" /\ ~Done) => Outstanding = 1)
    /\ <>(Done /\ result.kind = "returned")

\* A call over three chunks that took three requests of each kind and ended.
C20_Witness ==
    /\ Done
    /\ result.kind = "returned"
    /\ num_chunks = 3
    /\ Len(sum_requests) = 3
    /\ Len(gen_requests) = 3
    /\ Outstanding = 0

====
